---- MODULE Spec2Model ----
(* Model of src/server.mjs: the three Fastify handlers                      *)
(*   POST /api/v1/user          (registration, create_user)                 *)
(*   POST /api/v1/user/session  (login, get_user_by_auth + session store)   *)
(*   GET  /api/v1/user/:uuid    (profile lookup, get_userprofile_by_uuid)   *)
(* over the Prisma store of src/prisma/schema.prisma (Users, UserProfile)   *)
(* and the module-level object user_session_buffer.                         *)
(*                                                                          *)
(* Node runs each handler on one thread; a handler is cut only at its       *)
(* awaits.  Every action below is one such uninterrupted piece: the code up *)
(* to the next store call, or the store call's effect together with the     *)
(* continuation that runs on its result when that continuation touches no   *)
(* shared state.                                                            *)
EXTENDS Integers, Sequences, FiniteSets, TLC

\* ------------------------------------------------------------------ bounds
\* number of requests the server is sent in one run
MaxRequests == 3

\* request slots: the requests that can be in flight at the same time
Reqs == {1, 2}

\* ------------------------------------------------------------- value space
\* a property missing from a JSON body / from an object reads as undefined
UNDEFINED == "<undefined>"
\* user_id of an object that has no such property (ids start at 1)
UNDEFINED_ID == 0
\* the JSON bodies a client posts: username and password, or a body that
\* leaves the password out
Bodies ==
    {[username |-> "alice", password |-> "p1"],
     [username |-> "alice", password |-> "p2"],
     [username |-> "bob", password |-> "p1"],
     [username |-> "alice", password |-> UNDEFINED]}
\* values uuidv4() can return
UUIDs == {"uuid-a", "uuid-b"}
\* keys every JS object inherits from Object.prototype
ProtoKeys == {"constructor"}
\* what the :uuid path parameter can be
PathParams == UUIDs \cup ProtoKeys
NoUuid == ""

\* findFirst's "no row" result, and JS null stored in the buffer
NULL == [null |-> TRUE]
NoUser == [none |-> TRUE]
NoRequest == [route |-> "none"]
NoReply == [kind |-> "none"]

VARIABLES
    users,                \* table Users, in rowid order; user_id = index
    profiles,             \* table UserProfile, in rowid order; profile_id = index
    user_session_buffer,  \* own properties of the object: token -> User | NULL
    pc,                   \* per request slot: where its handler is
    request,              \* per slot: route and request.body / request.params
    uuid,                 \* login handler's local `uuid`
    result,               \* login handler's local `result`
    user,                 \* create_user's local `user`
    user_id,              \* get_userprofile_by_uuid's local `user_id`
    reply,                \* the JSON body the handler returned
    served,               \* requests received so far
    exact_logins          \* history: tokens returned by a login whose username
                          \* and password were those of the user it stored

vars == <<users, profiles, user_session_buffer, pc, request, uuid, result,
          user, user_id, reply, served, exact_logins>>

store == <<users, profiles>>
locals == <<uuid, result, user, user_id>>

Range(s) == {s[i] : i \in 1..Len(s)}

\* ------------------------------------------------------------------- store
\* model Users: user_id autoincrement, the four columns create_user passes
UserRow(id, username, password) ==
    [user_id |-> id, username |-> username, password |-> password,
     permission |-> 0, auth_method |-> "local"]

\* model UserProfile: profile_id autoincrement, gender, user_id
\* (brithday = new Date() is not read by any handler and is left out)
ProfileRow(id, uid) ==
    [profile_id |-> id, gender |-> "gay", user_id |-> uid]

\* Prisma's where-filter on one field: a field whose value is undefined is
\* left out of the filter, any other value is compared for equality
FieldMatches(value, wanted, undef) == wanted = undef \/ value = wanted

\* rows prisma.users.findFirst({where: {username, password}}) can return
UsersMatching(username, password) ==
    {u \in Range(users) : /\ FieldMatches(u.username, username, UNDEFINED)
                          /\ FieldMatches(u.password, password, UNDEFINED)}

\* rows prisma.userProfile.findFirst({where: {user_id}}) can return
ProfilesMatching(uid) ==
    {p \in Range(profiles) : FieldMatches(p.user_id, uid, UNDEFINED_ID)}

\* @unique on UserProfile.user_id
UserIdTaken(uid) == \E p \in Range(profiles) : p.user_id = uid

\* create_user without its second step
InsertNoUserProfile(profs, uid) == profs

\* prisma.userProfile.create(...connect: {user_id}): the table afterwards
InsertUserProfile(profs, uid) ==
    Append(profs, ProfileRow(Len(profs) + 1, uid))

\* ---------------------------------------------------------------- registry
\* key is an own property of user_session_buffer (a token that was stored)
HasOwn(key) == key \in DOMAIN user_session_buffer

Threw == [throws |-> TRUE, user_id |-> UNDEFINED_ID]
Read(uid) == [throws |-> FALSE, user_id |-> uid]

\* the same line written with optional chaining: user_session_buffer[uuid]?.user_id
ReadSessionUserIdOptional(key) ==
    IF HasOwn(key) /\ user_session_buffer[key] # NULL
    THEN Read(user_session_buffer[key].user_id)
    ELSE Read(UNDEFINED_ID)

\* line 15, user_session_buffer[uuid].user_id:
\*   a stored token  -> the stored value's user_id, a TypeError if it is null
\*   an inherited key (Object.prototype) -> a value that has no user_id
\*   anything else   -> undefined, and reading .user_id of it is a TypeError
ReadSessionUserId(key) ==
    IF HasOwn(key)
    THEN IF user_session_buffer[key] = NULL
         THEN Threw
         ELSE Read(user_session_buffer[key].user_id)
    ELSE IF key \in ProtoKeys THEN Read(UNDEFINED_ID) ELSE Threw

\* a generator that can repeat a token it has handed out
AnyUuids == UUIDs

\* tokens uuidv4() can return: never one it returned before, that is one
\* held by the buffer or by a login in flight
FreshUuids == (UUIDs \ DOMAIN user_session_buffer) \ {uuid[q] : q \in Reqs}

\* user_session_buffer[key] = value
SetKey(buf, key, value) ==
    [k \in DOMAIN buf \cup {key} |-> IF k = key THEN value ELSE buf[k]]

\* -------------------------------------------------------------------- init
Init ==
    /\ users = <<>>
    /\ profiles = <<>>
    /\ user_session_buffer = <<>>
    /\ pc = [r \in Reqs |-> "idle"]
    /\ request = [r \in Reqs |-> NoRequest]
    /\ uuid = [r \in Reqs |-> NoUuid]
    /\ result = [r \in Reqs |-> NoUser]
    /\ user = [r \in Reqs |-> NoUser]
    /\ user_id = [r \in Reqs |-> UNDEFINED_ID]
    /\ reply = [r \in Reqs |-> NoReply]
    /\ served = 0
    /\ exact_logins = {}

\* a request arrives at a free slot while the run's budget lasts
Receive(r) ==
    /\ pc[r] = "idle"
    /\ served < MaxRequests
    /\ served' = served + 1
    /\ UNCHANGED exact_logins

\* the handler returns `body`
Finish(r, body) ==
    /\ pc' = [pc EXCEPT ![r] = "done"]
    /\ reply' = [reply EXCEPT ![r] = body]
    /\ UNCHANGED served

ErrorReply(err) == [kind |-> "Error", err |-> err]

\* ------------------------------------------------- POST /api/v1/user
\* the handler starts and create_user calls prisma.users.create
RegisterRequest(r) ==
    /\ Receive(r)
    /\ \E body \in Bodies :
          request' = [request EXCEPT ![r] =
                         [route |-> "POST user", username |-> body.username,
                          password |-> body.password]]
    /\ pc' = [pc EXCEPT ![r] = "users_create"]
    /\ UNCHANGED <<store, user_session_buffer, locals, reply>>

\* prisma.users.create rejects a missing required column
UsersCreateInvalid(r) ==
    /\ pc[r] = "users_create"
    /\ request[r].username = UNDEFINED \/ request[r].password = UNDEFINED
    /\ Finish(r, ErrorReply("ValidationError"))
    /\ UNCHANGED <<store, user_session_buffer, request, locals, exact_logins>>

\* prisma.users.create inserts the row; create_user goes on to the profile
UsersCreate(r) ==
    /\ pc[r] = "users_create"
    /\ request[r].username # UNDEFINED /\ request[r].password # UNDEFINED
    /\ LET row == UserRow(Len(users) + 1, request[r].username, request[r].password)
       IN /\ users' = Append(users, row)
          /\ user' = [user EXCEPT ![r] = row]
    /\ pc' = [pc EXCEPT ![r] = "profile_create"]
    /\ UNCHANGED <<profiles, user_session_buffer, request, uuid, result, user_id, reply,
                   served, exact_logins>>

\* prisma.userProfile.create, then the handler returns Success
UserProfileCreate(r) ==
    /\ pc[r] = "profile_create"
    /\ IF UserIdTaken(user[r].user_id)
       THEN /\ Finish(r, ErrorReply("UniqueConstraint"))
            /\ UNCHANGED profiles
       ELSE /\ profiles' = InsertUserProfile(profiles, user[r].user_id)
            /\ Finish(r, [kind |-> "Success"])
    /\ UNCHANGED <<users, user_session_buffer, request, locals, exact_logins>>

\* ------------------------------------------------- POST /api/v1/user/session
\* the handler starts, takes uuidv4() and calls get_user_by_auth
LoginRequest(r) ==
    /\ Receive(r)
    /\ \E body \in Bodies :
          request' = [request EXCEPT ![r] =
                         [route |-> "POST session", username |-> body.username,
                          password |-> body.password]]
    /\ \E t \in FreshUuids : uuid' = [uuid EXCEPT ![r] = t]
    /\ pc' = [pc EXCEPT ![r] = "users_find"]
    /\ UNCHANGED <<store, user_session_buffer, result, user, user_id, reply>>

\* prisma.users.findFirst answers: one of the matching rows, or null
UsersFindFirst(r) ==
    /\ pc[r] = "users_find"
    /\ LET found == UsersMatching(request[r].username, request[r].password)
       IN IF found = {}
          THEN result' = [result EXCEPT ![r] = NULL]
          ELSE \E u \in found : result' = [result EXCEPT ![r] = u]
    /\ pc' = [pc EXCEPT ![r] = "session_store"]
    /\ UNCHANGED <<store, user_session_buffer, request, uuid, user, user_id, reply,
                   served, exact_logins>>

\* history of the tokens handed to clients that supplied a user's own
\* username and password
LogLogin(r) ==
    exact_logins' =
        IF /\ result[r] # NULL
           /\ result[r].username = request[r].username
           /\ result[r].password = request[r].password
        THEN exact_logins \cup {uuid[r]}
        ELSE exact_logins

\* `result` declared once for the module instead of per call: the value
\* stored is whatever login assigned it last
SessionStoreSharedResult(r) ==
    /\ pc[r] = "session_store"
    /\ \E q \in Reqs :
          /\ pc[q] = "session_store"
          /\ user_session_buffer' = SetKey(user_session_buffer, uuid[r], result[q])
    /\ Finish(r, [kind |-> "uuid", uuid |-> uuid[r]])
    /\ LogLogin(r)
    /\ UNCHANGED <<store, request, locals>>

\* the buffer rebuilt on every login: user_session_buffer = {[uuid]: result}
SessionStoreReset(r) ==
    /\ pc[r] = "session_store"
    /\ user_session_buffer' = SetKey(<<>>, uuid[r], result[r])
    /\ Finish(r, [kind |-> "uuid", uuid |-> uuid[r]])
    /\ LogLogin(r)
    /\ UNCHANGED <<store, request, locals>>

\* user_session_buffer[uuid] = result; return {"uuid": uuid}
SessionStore(r) ==
    /\ pc[r] = "session_store"
    /\ user_session_buffer' = SetKey(user_session_buffer, uuid[r], result[r])
    /\ Finish(r, [kind |-> "uuid", uuid |-> uuid[r]])
    /\ LogLogin(r)
    /\ UNCHANGED <<store, request, locals>>

\* ------------------------------------------------- GET /api/v1/user/:uuid
\* the handler starts; line 15 reads the buffer before the first await
LookupRequest(r) ==
    /\ Receive(r)
    /\ \E key \in PathParams :
          /\ request' = [request EXCEPT ![r] = [route |-> "GET user", uuid |-> key]]
          /\ IF ReadSessionUserId(key).throws
             THEN /\ pc' = [pc EXCEPT ![r] = "done"]
                  /\ reply' = [reply EXCEPT ![r] = ErrorReply("TypeError")]
                  /\ UNCHANGED user_id
             ELSE /\ user_id' = [user_id EXCEPT ![r] = ReadSessionUserId(key).user_id]
                  /\ pc' = [pc EXCEPT ![r] = "profile_find"]
                  /\ UNCHANGED reply
    /\ UNCHANGED <<store, user_session_buffer, uuid, result, user>>

\* a lookup that makes the missing profile itself (find, else create)
UserProfileFindOrCreate(r) ==
    /\ pc[r] = "profile_find"
    /\ LET found == ProfilesMatching(user_id[r])
       IN IF found = {}
          THEN /\ profiles' = InsertUserProfile(profiles, user_id[r])
               /\ Finish(r, [kind |-> "profile",
                              profile |-> ProfileRow(Len(profiles) + 1, user_id[r])])
          ELSE /\ \E p \in found : Finish(r, [kind |-> "profile", profile |-> p])
               /\ UNCHANGED profiles
    /\ UNCHANGED <<users, user_session_buffer, request, locals, exact_logins>>

\* prisma.userProfile.findFirst answers; the handler returns the row or null
UserProfileFindFirst(r) ==
    /\ pc[r] = "profile_find"
    /\ LET found == ProfilesMatching(user_id[r])
       IN IF found = {}
          THEN Finish(r, [kind |-> "null"])
          ELSE \E p \in found : Finish(r, [kind |-> "profile", profile |-> p])
    /\ UNCHANGED <<store, user_session_buffer, request, locals, exact_logins>>

\* ------------------------------------------------- store failure, slot reuse
\* a create_user that deletes the user again when the profile cannot be made
StoreFailRollback(r) ==
    /\ pc[r] \in {"users_create", "profile_create", "users_find", "profile_find"}
    /\ Finish(r, ErrorReply("StorageUnavailable"))
    /\ users' = IF pc[r] = "profile_create"
                THEN SelectSeq(users, LAMBDA u : u # user[r])
                ELSE users
    /\ UNCHANGED <<profiles, user_session_buffer, request, locals, exact_logins>>

\* a login that writes its token in a finally block, whatever the lookup did
StoreFailKeepsToken(r) ==
    /\ pc[r] \in {"users_create", "profile_create", "users_find", "profile_find"}
    /\ Finish(r, ErrorReply("StorageUnavailable"))
    /\ user_session_buffer' =
          IF pc[r] = "users_find"
          THEN SetKey(user_session_buffer, uuid[r], NULL)
          ELSE user_session_buffer
    /\ UNCHANGED <<store, request, locals, exact_logins>>

\* any awaited Prisma call may reject (store unreachable); the handler's
\* catch turns it into {message: "Error", err}
StoreFail(r) ==
    /\ pc[r] \in {"users_create", "profile_create", "users_find", "profile_find"}
    /\ Finish(r, ErrorReply("StorageUnavailable"))
    /\ UNCHANGED <<store, user_session_buffer, request, locals, exact_logins>>

\* the response has been sent; the slot serves the next request
Retire(r) ==
    /\ pc[r] = "done"
    /\ pc' = [pc EXCEPT ![r] = "idle"]
    /\ request' = [request EXCEPT ![r] = NoRequest]
    /\ uuid' = [uuid EXCEPT ![r] = NoUuid]
    /\ result' = [result EXCEPT ![r] = NoUser]
    /\ user' = [user EXCEPT ![r] = NoUser]
    /\ user_id' = [user_id EXCEPT ![r] = UNDEFINED_ID]
    /\ reply' = [reply EXCEPT ![r] = NoReply]
    /\ UNCHANGED <<store, user_session_buffer, served, exact_logins>>

Next ==
    \/ \E r \in Reqs : RegisterRequest(r)
    \/ \E r \in Reqs : UsersCreateInvalid(r)
    \/ \E r \in Reqs : UsersCreate(r)
    \/ \E r \in Reqs : UserProfileCreate(r)
    \/ \E r \in Reqs : LoginRequest(r)
    \/ \E r \in Reqs : UsersFindFirst(r)
    \/ \E r \in Reqs : SessionStore(r)
    \/ \E r \in Reqs : LookupRequest(r)
    \/ \E r \in Reqs : UserProfileFindFirst(r)
    \/ \E r \in Reqs : StoreFail(r)
    \/ \E r \in Reqs : Retire(r)

Spec == Init /\ [][Next]_vars

TypeOK ==
    /\ Len(users) <= MaxRequests
    /\ \A i \in 1..Len(users) : users[i].user_id = i
    /\ DOMAIN user_session_buffer \subseteq UUIDs
    /\ \A t \in DOMAIN user_session_buffer :
          user_session_buffer[t] = NULL \/ user_session_buffer[t] \in Range(users)

\* ------------------------------------------------------------- vocabulary
IsRegister(r) == request[r].route = "POST user"
IsLogin(r) == request[r].route = "POST session"
IsLookup(r) == request[r].route = "GET user"

\* the store answered request r's pending call and the handler returned
Answered(r, at) ==
    /\ pc[r] = at
    /\ pc'[r] = "done"
    /\ reply'[r] # ErrorReply("StorageUnavailable")

\* number of UserProfile rows whose user_id is uid
ProfileCount(uid) ==
    Cardinality({i \in 1..Len(profiles) : profiles[i].user_id = uid})

\* users whose username and password equal the body's values literally
ExactMatches(r) ==
    {u \in Range(users) : /\ u.username = request[r].username
                          /\ u.password = request[r].password}

\* ------------------------------------------------------------------ C1
\* C1: once a login whose username and password are those of user U has
\* returned token T (T is stored with U), every later lookup of T that the
\* store answers returns the UserProfile whose user_id is U's id.
C1_ReadYourWrites ==
    [][\A r \in Reqs :
          (Answered(r, "profile_find") /\ request[r].uuid \in exact_logins)
          => /\ reply'[r].kind = "profile"
             /\ reply'[r].profile.user_id = user_session_buffer[request[r].uuid].user_id]_vars

\* ------------------------------------------------------------------ C2
\* C2: every token held by the session registry maps to a User row of the
\* store; no token maps to an absent (null) identity.
C2_TokensReferToUsers ==
    \A t \in DOMAIN user_session_buffer :
        /\ user_session_buffer[t] # NULL
        /\ user_session_buffer[t] \in Range(users)

\* ------------------------------------------------------------------ C3
\* C3: a lookup with a token that was never issued ends in the Error
\* response, never a profile or another success body, and no lookup step
\* changes the registry or the store.
C3_UnissuedTokenFails ==
    /\ [](\A r \in Reqs :
            (IsLookup(r) /\ pc[r] = "done" /\ ~HasOwn(request[r].uuid))
            => reply[r].kind = "Error")
    /\ [][\A r \in Reqs :
            (IsLookup(r)' /\ pc'[r] # pc[r] /\ pc'[r] # "idle")
            => UNCHANGED <<user_session_buffer, store>>]_vars

\* ------------------------------------------------------------------ C4
\* C4: the token a login stores is not a key of the registry at that moment,
\* it is the token the login returns, the mappings already stored stay as
\* they are, and logins in flight never hold the same token.
C4_IssueNeverOverwrites ==
    /\ [](\A r, q \in Reqs :
            (r # q /\ uuid[r] # NoUuid) => uuid[r] # uuid[q])
    /\ [][\A r \in Reqs :
            (pc[r] = "session_store" /\ pc'[r] = "done")
            => /\ ~HasOwn(uuid[r])
               /\ reply'[r] = [kind |-> "uuid", uuid |-> uuid[r]]
               /\ DOMAIN user_session_buffer' = DOMAIN user_session_buffer \cup {uuid[r]}
               /\ \A t \in DOMAIN user_session_buffer :
                     user_session_buffer'[t] = user_session_buffer[t]]_vars

\* two logins of the same user hold two tokens, both resolvable
C4_Witness ==
    \E t1, t2 \in DOMAIN user_session_buffer :
        /\ t1 # t2
        /\ user_session_buffer[t1] # NULL
        /\ user_session_buffer[t1] = user_session_buffer[t2]
        /\ \E r \in Reqs : pc[r] = "done" /\ IsLogin(r) /\ reply[r] = [kind |-> "uuid", uuid |-> t2]

\* ------------------------------------------------------------------ C5
\* C5: when a registration answers Success the new user has exactly one
\* UserProfile; no two profiles ever share a user_id; and a user who has one
\* profile has one in every later state.
C5_OneProfilePerUser ==
    /\ [](/\ \A i, j \in 1..Len(profiles) :
                i # j => profiles[i].user_id # profiles[j].user_id
          /\ \A r \in Reqs :
                (pc[r] = "done" /\ IsRegister(r) /\ reply[r].kind = "Success")
                => ProfileCount(user[r].user_id) = 1)
    /\ [][\A uid \in 1..Len(users) :
            ProfileCount(uid) = 1 => ProfileCount(uid)' = 1]_vars

\* two registrations with the same username ran at the same time and both
\* answered Success
C5_Witness ==
    /\ \A r \in Reqs : pc[r] = "done" /\ IsRegister(r) /\ reply[r].kind = "Success"
    /\ \A r, q \in Reqs : request[r].username = request[q].username
    /\ Len(users) = 2
    /\ ProfileCount(1) = 1 /\ ProfileCount(2) = 1

\* ------------------------------------------------------------------ C6
\* C6: when the store answers a login's credential lookup, the result is a
\* User whose username and password both equal the supplied values if such a
\* row exists, and null exactly when none exists.
C6_AuthenticateExactMatch ==
    [][\A r \in Reqs :
          (pc[r] = "users_find" /\ pc'[r] = "session_store")
          => IF ExactMatches(r) = {}
             THEN result'[r] = NULL
             ELSE result'[r] \in ExactMatches(r)]_vars

\* ------------------------------------------------------------------ C7
\* C7: a lookup whose token resolves to an identity that has no UserProfile
\* ends in the Error response, not in a success body carrying null.
C7_MissingProfileIsError ==
    [][\A r \in Reqs :
          (/\ pc[r] = "profile_find" /\ pc'[r] = "done"
           /\ HasOwn(request[r].uuid)
           /\ ProfileCount(user_id[r]) = 0)
          => reply'[r].kind = "Error"]_vars

\* ------------------------------------------------------------------ C8
\* C8: whatever the interleaving of logins, a login that holds a result holds
\* the answer to its own credentials, every login that responded with a token
\* finds that token in the registry bound to its own result, and two such
\* logins returned different tokens.
C8_ConcurrentLoginsKeepOwnIdentity ==
    /\ \A r \in Reqs :
          (IsLogin(r) /\ result[r] # NoUser)
          => \/ result[r] = NULL
             \/ result[r] \in UsersMatching(request[r].username, request[r].password)
    /\ \A r \in Reqs :
          (IsLogin(r) /\ pc[r] = "done" /\ reply[r].kind = "uuid")
          => /\ HasOwn(reply[r].uuid)
             /\ user_session_buffer[reply[r].uuid] = result[r]
    /\ \A r, q \in Reqs :
          (/\ r # q
           /\ IsLogin(r) /\ pc[r] = "done" /\ reply[r].kind = "uuid"
           /\ IsLogin(q) /\ pc[q] = "done" /\ reply[q].kind = "uuid")
          => reply[r].uuid # reply[q].uuid

\* two logins are in flight together, both past their credential lookup with
\* different results (one matched a user, one matched none), the first has
\* stored its token and responded while the other is about to
C8_Witness ==
    \E r, q \in Reqs :
        /\ IsLogin(r) /\ IsLogin(q)
        /\ pc[r] = "done" /\ reply[r].kind = "uuid"
        /\ pc[q] = "session_store"
        /\ request[r].username = request[q].username
        /\ result[r] = NULL
        /\ result[q] \in Range(users)
        /\ user_session_buffer[reply[r].uuid] = NULL

\* ------------------------------------------------------------------ C9
\* C9: a stored mapping is never removed and never rebound, and only the
\* step of a login that stores its token changes the registry at all (no
\* register step, no lookup step and no other login step does).
C9_RegistryOnlyGrows ==
    [][/\ \A t \in DOMAIN user_session_buffer :
             /\ t \in DOMAIN user_session_buffer'
             /\ user_session_buffer'[t] = user_session_buffer[t]
       /\ (\A r \in Reqs : ~(pc[r] = "session_store" /\ pc'[r] = "done"))
          => user_session_buffer' = user_session_buffer]_vars

\* a stored token was resolved by a lookup that returned its user's profile,
\* and after that lookup the token is bound to the same user as before
C9_Witness ==
    \E r \in Reqs :
        /\ pc[r] = "done" /\ IsLookup(r) /\ reply[r].kind = "profile"
        /\ HasOwn(request[r].uuid)
        /\ user_session_buffer[request[r].uuid].user_id = reply[r].profile.user_id

C11_NoRollbackUserStillLogsIn ==
    [][/\ \A r \in Reqs :
             (pc[r] = "profile_create" /\ pc'[r] = "done" /\ profiles' = profiles)
             => /\ reply'[r].kind = "Error"
                /\ users' = users
                /\ user[r] \in Range(users')
                /\ ProfileCount(user[r].user_id)' = 0
       /\ \A i \in 1..Len(users) : i <= Len(users') /\ users'[i] = users[i]
       /\ \A r \in Reqs :
             (pc[r] = "users_find" /\ pc'[r] = "session_store" /\ ExactMatches(r) # {})
             => result'[r] \in ExactMatches(r)]_vars

\* a registration answered Error at its profile step, its user has no
\* profile, and a login with that user's credentials was issued a token
C11_Witness ==
    \E r, q \in Reqs :
        /\ IsRegister(r) /\ pc[r] = "done"
        /\ reply[r] = ErrorReply("StorageUnavailable")
        /\ user[r] \in Range(users)
        /\ ProfileCount(user[r].user_id) = 0
        /\ IsLogin(q) /\ pc[q] = "done" /\ reply[q].kind = "uuid"
        /\ reply[q].uuid \in exact_logins
        /\ user_session_buffer[reply[q].uuid] = user[r]

\* ------------------------------------------------------------------ C12
\* C12: a user whose registration answered Success was never seen without a
\* profile: no lookup holds the empty (null) answer for a token that a login
\* with that user's own credentials was issued.
C12_SuccessfulRegistrationNeverSeenPartial ==
    \A q, r \in Reqs :
        (/\ IsRegister(q) /\ pc[q] = "done" /\ reply[q].kind = "Success"
         /\ IsLookup(r) /\ pc[r] = "done"
         /\ request[r].uuid \in exact_logins
         /\ user_session_buffer[request[r].uuid] = user[q])
        => reply[r].kind # "null"

\* ------------------------------------------------------------------ C13
\* C13: when the store fails during a login's credential lookup the handler
\* answers Error, the registry is left exactly as it was, and the token that
\* was generated for the login is not a key of the registry, then or while
\* the response stands.
C13_FailedLoginIssuesNothing ==
    /\ [](\A r \in Reqs :
            (IsLogin(r) /\ pc[r] = "done" /\ reply[r].kind # "uuid")
            => /\ reply[r] = ErrorReply("StorageUnavailable")
               /\ ~HasOwn(uuid[r])
               /\ uuid[r] \notin exact_logins)
    /\ [][\A r \in Reqs :
            (pc[r] = "users_find" /\ pc'[r] = "done")
            => /\ reply'[r] = ErrorReply("StorageUnavailable")
               /\ user_session_buffer' = user_session_buffer]_vars

\* a login failed at its lookup while another token was already stored
C13_Witness ==
    \E r \in Reqs :
        /\ IsLogin(r) /\ pc[r] = "done"
        /\ reply[r] = ErrorReply("StorageUnavailable")
        /\ uuid[r] \in UUIDs
        /\ DOMAIN user_session_buffer = UUIDs \ {uuid[r]}

\* ------------------------------------------------------------------ C14
\* C14: a step of a login or of a lookup never changes the Users or the
\* UserProfile table, a step of a registration never changes the session
\* registry, and the tables change only in a step of a registration.
StepOf(r, route) ==
    /\ pc'[r] # pc[r]
    /\ (IF pc[r] = "idle" THEN request'[r].route ELSE request[r].route) = route

C14_ReadOnlyAuthAndLookup ==
    [][/\ \A r \in Reqs :
             (StepOf(r, "POST session") \/ StepOf(r, "GET user"))
             => UNCHANGED store
       /\ \A r \in Reqs :
             StepOf(r, "POST user") => UNCHANGED user_session_buffer
       /\ (store' # store) => \E r \in Reqs : StepOf(r, "POST user")]_vars

\* a registration, a login and a lookup have all run to their answers
C14_Witness ==
    /\ Len(users) = 1 /\ Len(profiles) = 1
    /\ Cardinality(DOMAIN user_session_buffer) = 1
    /\ served = MaxRequests
    /\ \E r \in Reqs : IsLookup(r) /\ pc[r] = "done" /\ reply[r].kind = "profile"

\* ------------------------------------------------------------------ C15
\* C15: whenever a lookup returns a UserProfile P, the token it used was
\* returned earlier by a login whose username and password were those of the
\* stored User it resolved to, and that user's id is P.user_id.
C15_NoProfileWithoutAuthentication ==
    [][\A r \in Reqs :
          (pc[r] = "profile_find" /\ pc'[r] = "done" /\ reply'[r].kind = "profile")
          => /\ request[r].uuid \in exact_logins
             /\ user_session_buffer[request[r].uuid].user_id
                   = reply'[r].profile.user_id]_vars
====
